---- MODULE Spec2Model ----
(***************************************************************************)
(* Model of download_prism.py: the URL enumerator (get_prism_daily_urls,   *)
(* memoized with functools.cache), the archive unpacker                    *)
(* (unpacked_prismzip_bil, _dump_zippedbil) and the pipeline driver (main).*)
(***************************************************************************)
EXTENDS Integers, Sequences, FiniteSets, TLC

(* ------------------------------ bounds --------------------------------- *)
\* longest list of years handed to main
MaxYears == 2
\* most members in one zip archive
MaxMembers == 2
\* most standalone calls of get_prism_daily_urls in one process
MaxCalls == 3

(* --------------------------- program constants ------------------------- *)
\* retry_call(..., tries=3, delay=30, backoff=2)
RetryTriesFour == 3 + 1
RetryTries == 3
RetryDelay == 30
RetryBackoff == 2

(* ------------------------------ inputs --------------------------------- *)
YearValues == {2020, 2021}

\* a url that a listing for year can return: its name matches the pattern
\* PRISM_{variable}_{stability}_{scale}{version}_{year}*_bil.zip and star is
\* the text that the * of the pattern stands for
PrismUrl(variable, year, star) == [variable |-> variable, year |-> year, star |-> star]

\* the archives of 2020-01-01, 2020-01-02 and 2020-01-03, and one whose date
\* token is no date
U1 == PrismUrl("tmean", 2020, <<"0", "1", "0", "1">>)
U2 == PrismUrl("tmean", 2020, <<"0", "1", "0", "2">>)
U3 == PrismUrl("tmean", 2020, <<"0", "1", "0", "3">>)
UBadDate == PrismUrl("tmean", 2020, <<"x">>)
Urls == {U1, U2, U3, UBadDate}
\* what one fs.glob call can return: a listing, in any order
Listings == {<<>>, <<U3>>, <<U2, U1>>, <<UBadDate>>}
GlobFailure == [ok |-> FALSE, urls |-> <<>>]
GlobOutcomes == { [ok |-> TRUE, urls |-> l] : l \in Listings } \cup {GlobFailure}

\* the arguments main passes to get_prism_daily_urls for year yr:
\* get_prism_daily_urls(yr, fs=fs, variable=, scale=, version=, stability=)
MainKey(yr) ==
    [year |-> yr, fs |-> "fs1", variable |-> "tmean", stability |-> "stable",
     scale |-> "4km", version |-> "D2", kworder |-> "main"]

\* the calls tried on the enumerator: main's call and one variant per argument
CallKeys ==
    { MainKey(2020),
      MainKey(2021),
      [MainKey(2020) EXCEPT !.fs = "fs2"],
      [MainKey(2020) EXCEPT !.variable = "ppt"],
      [MainKey(2020) EXCEPT !.stability = "provisional"],
      [MainKey(2020) EXCEPT !.scale = "800m"],
      [MainKey(2020) EXCEPT !.version = "D1"],
      [MainKey(2020) EXCEPT !.kworder = "other"] }

\* names of archive members: internal directory, stem, suffix
MemberNames ==
    [dir : {""}, stem : {"a", "b"}, suffix : {".bil", ".hdr"}]
    \cup [dir : {"sub"}, stem : {"a"}, suffix : {".bil", ".hdr"}]
\* the bytes of member m in revision v of an archive: different for different
\* members and for different revisions
Revisions == {1, 2}
MemberBytes(v, m) ==
    10 * v + 4 * (IF m.dir = "" THEN 0 ELSE 1) + 2 * (IF m.stem = "a" THEN 0 ELSE 1)
           + (IF m.suffix = ".bil" THEN 0 ELSE 1)
\* a zip archive: its members, each full name at most once, with their bytes
Archives ==
    { [m \in N |-> MemberBytes(v, m)] :
        N \in { S \in SUBSET MemberNames : Cardinality(S) <= MaxMembers }, v \in Revisions }

VARIABLES
    pc,          \* position of main
    err,         \* the exception propagating out of main, "none" if none
    years,       \* main's argument
    yi,          \* index of the year being enumerated
    all_urls,    \* main's all_urls
    cache,       \* functools.cache of get_prism_daily_urls: key -> listing
    callLog,     \* every call of get_prism_daily_urls: key, queried, result
    globLog,     \* every fs.glob query issued: fs and pattern
    scratch,     \* the run-scoped TemporaryDirectory of main
    extdirs,     \* the TemporaryDirectory of each unpacked_prismzip_bil call
    i,           \* index into all_urls of the url being processed
    tries,       \* retry_call: _tries
    delay,       \* retry_call: _delay
    sleeps,      \* the delays slept by the current retry_call, in order
    attempts,    \* fs.get_file calls made by the current retry_call
    lastFetch,   \* how the latest fs.get_file call ended, "none" before the first
    bil_path,    \* the path yielded by unpacked_prismzip_bil, NoPath if none
    da,          \* the frame being processed in the loop body
    daily_paths, \* main's daily_paths
    ds,          \* the lazily opened combined dataset: the files it refers to
    zarr         \* state of the output store

vars == <<pc, err, years, yi, all_urls, cache, callLog, globLog, scratch,
          extdirs, i, tries, delay, sleeps, attempts, lastFetch, bil_path, da,
          daily_paths, ds, zarr>>

enumVars == <<cache, callLog, globLog>>
retryVars == <<tries, delay, sleeps, attempts, lastFetch>>

(* ----------------------- get_prism_daily_urls -------------------------- *)
\* the glob pattern built from the arguments:
\* /daily/{variable}/{year}/PRISM_{variable}_{stability}_{scale}{version}_{year}*_bil.zip
target_file_glob(k) ==
    [dir |-> <<"daily", k.variable, k.year>>,
     name |-> <<"PRISM", k.variable, k.stability, <<k.scale, k.version>>, k.year>>]

\* a cache that files a call under the five listing arguments only
CacheKeyWithoutFs(k) == [k EXCEPT !.fs = "fs1"]

\* the key functools.cache files a call under: the positional argument and
\* the keyword arguments in the order they were passed, fs among them
CacheKey(k) == k

\* one call of the memoized function with arguments k, where r is what the
\* remote store would answer to a glob issued now.  A hit returns the stored
\* listing without a query; a miss queries, and stores the listing only if
\* the query returned (an exception is not cached).
cached_call(c, k, r) ==
    IF CacheKey(k) \in DOMAIN c
    THEN [cache |-> c, queried |-> FALSE, result |-> c[CacheKey(k)]]
    ELSE [cache |-> IF ~r.ok THEN c ELSE (CacheKey(k) :> r) @@ c,
          queried |-> TRUE,
          result |-> r]

\* the effect of one call on the enumerator's state
GetUrls(k, r) ==
    LET out == cached_call(cache, k, r) IN
    /\ cache' = out.cache
    /\ callLog' = Append(callLog, [key |-> k, queried |-> out.queried, result |-> out.result])
    /\ globLog' = IF out.queried
                  THEN Append(globLog, [fs |-> k.fs, pattern |-> target_file_glob(k)])
                  ELSE globLog

(* ------------------------------- Init ---------------------------------- *)
EmptyFiles == << >>
\* no downloaded archive in the directory
NoZip == [present |-> FALSE, readable |-> FALSE, members |-> << >>]
NoDir == [state |-> "none", zip |-> NoZip, files |-> EmptyFiles]
\* TemporaryDirectory().__enter__: a fresh, empty directory
NewDir == [state |-> "live", zip |-> NoZip, files |-> EmptyFiles]
\* TemporaryDirectory().__exit__: the directory and all its contents are removed
TemporaryDirectoryCleanup(d) == [state |-> "deleted", zip |-> NoZip, files |-> EmptyFiles]

NoPath == [dir |-> 0, name |-> [stem |-> "", suffix |-> ""]]
NoDate == <<0, 0, 0>>
NoUrl == PrismUrl("", 0, <<>>)
NoFrame == [loaded |-> FALSE, data |-> 0, source_url |-> NoUrl, normalized |-> FALSE,
            time |-> NoDate]
NoDataset == [open |-> FALSE, paths |-> <<>>, times |-> <<>>]

Init ==
    /\ pc = "enum"
    /\ err = "none"
    /\ years \in UNION { [1..n -> YearValues] : n \in 0..MaxYears }
    /\ yi = 1
    /\ all_urls = <<>>
    /\ cache = << >>
    /\ callLog = <<>>
    /\ globLog = <<>>
    /\ scratch = NoDir
    /\ extdirs = <<>>
    /\ i = 1
    /\ tries = 0
    /\ delay = 0
    /\ sleeps = <<>>
    /\ attempts = 0
    /\ lastFetch = "none"
    /\ bil_path = NoPath
    /\ da = NoFrame
    /\ daily_paths = <<>>
    /\ ds = NoDataset
    /\ zarr = "absent"

(* ------------------------- main: enumeration --------------------------- *)
\* a chain that puts each listing in front of the earlier ones
chain_in_front(urls, listing) == listing \o urls

\* chain.from_iterable: the listing of the next year follows the urls of the
\* years before it
chain_from_iterable(urls, listing) == urls \o listing

\* all_urls = tuple(chain.from_iterable(get_prism_daily_urls(yr, ...) for yr in years))
\* one step per year; a listing failure propagates out of main before the
\* scratch directory is created
Enumerate ==
    /\ pc = "enum"
    /\ yi <= Len(years)
    /\ \E r \in GlobOutcomes :
         LET out == cached_call(cache, MainKey(years[yi]), r) IN
         /\ GetUrls(MainKey(years[yi]), r)
         /\ IF ~out.result.ok
            THEN /\ err' = "RemoteListingError"
                 /\ pc' = "done"
                 /\ UNCHANGED <<yi, all_urls>>
            ELSE /\ all_urls' = chain_from_iterable(all_urls, out.result.urls)
                 /\ yi' = yi + 1
                 /\ UNCHANGED <<pc, err>>
    /\ UNCHANGED <<years, scratch, extdirs, i, retryVars, bil_path, da, daily_paths, ds, zarr>>

\* with TemporaryDirectory() as tmpdir:   (main)
EnterScratch ==
    /\ pc = "enum"
    /\ yi > Len(years)
    /\ scratch' = NewDir
    /\ pc' = "loop"
    /\ UNCHANGED <<err, years, yi, all_urls, enumVars, extdirs, i, retryVars,
                   bil_path, da, daily_paths, ds, zarr>>

(* --------------------------- _dump_zippedbil --------------------------- *)
\* Path(fl.name).name: the member's filename without its internal directory
PathName(m) == [stem |-> m.stem, suffix |-> m.suffix]

\* the order of the top-level path strings stem + suffix
NameRank(m) ==
    2 * (CASE m.stem = "a" -> 1 [] m.stem = "b" -> 2 [] OTHER -> 3)
      + (CASE m.suffix = ".bil" -> 0 [] OTHER -> 1)

RECURSIVE SortedMembers(_)
SortedMembers(S) ==
    IF S = {} THEN <<>>
    ELSE LET m == CHOOSE x \in S : \A y \in S : NameRank(x) <= NameRank(y)
         IN <<m>> \o SortedMembers(S \ {m})

\* fsspec.open_files("zip://*::" + tmpzip_path): the glob * matches within one
\* path level, so the files opened are the members at the top level of the
\* archive, in sorted order; directories are left out
open_files(zip) ==
    LET top == { m \in DOMAIN zip.members : m.dir = "" } IN
    [k \in 1..Cardinality(top) |->
        [name |-> SortedMembers(top)[k], content |-> zip.members[SortedMembers(top)[k]]]]

\* the for loop of _dump_zippedbil from member k on; files is the content of
\* dumpdir so far and bil the bil_path found so far
RECURSIVE DumpLoop(_, _, _, _, _)
DumpLoop(ofs, k, dumpdir, files, bil) ==
    IF k > Len(ofs)
    THEN [files |-> files, bil_path |-> bil, raised |-> (bil = NoPath)]
    ELSE LET p == ofs[k].name
             outpath == [dir |-> dumpdir, name |-> PathName(p)]
             written == (outpath.name :> ofs[k].content) @@ files
         IN IF p.suffix = ".bil"
            THEN IF bil # NoPath
                 THEN [files |-> written, bil_path |-> bil, raised |-> TRUE]
                 ELSE DumpLoop(ofs, k + 1, dumpdir, written, outpath)
            ELSE DumpLoop(ofs, k + 1, dumpdir, written, bil)

\* _dump_zippedbil(ofs, dumpdir): what is written to dumpdir, the bil path
\* returned, and whether ZipBilFileError was raised instead
_dump_zippedbil(ofs, dumpdir, files) == DumpLoop(ofs, 1, dumpdir, files, NoPath)

(* ------------------------------ retry_call ----------------------------- *)
\* a retry on every failure of the download
RetriableAny(o) == o # "ok"

\* exceptions=(TimeoutError,): the failures retry_call catches
Retriable(o) == o = "timeout"

\* a retry that gives up one failure too late
retry_stepOneMore(t, d) ==
    [tries |-> t - 1,
     raise |-> (t - 1 < 0),
     slept |-> IF t - 1 < 0 THEN <<>> ELSE <<d>>,
     delay |-> IF t - 1 < 0 THEN d ELSE d * RetryBackoff]

\* a retry that waits the same delay every time
retry_stepConstantDelay(t, d) ==
    [tries |-> t - 1,
     raise |-> (t - 1 = 0),
     slept |-> IF t - 1 = 0 THEN <<>> ELSE <<d>>,
     delay |-> d]

\* retry_call after a caught failure with _tries = t and _delay = d left:
\* _tries -= 1; raise if none is left; else sleep(_delay), _delay *= backoff
retry_step(t, d) ==
    [tries |-> t - 1,
     raise |-> (t - 1 = 0),
     slept |-> IF t - 1 = 0 THEN <<>> ELSE <<d>>,
     delay |-> IF t - 1 = 0 THEN d ELSE d * RetryBackoff]

(* ---------------------- _datetime_from_prism_flname -------------------- *)
Digits == {"0", "1", "2", "3", "4", "5", "6", "7", "8", "9"}
DigitVal(c) ==
    CASE c = "0" -> 0 [] c = "1" -> 1 [] c = "2" -> 2 [] c = "3" -> 3 [] c = "4" -> 4
      [] c = "5" -> 5 [] c = "6" -> 6 [] c = "7" -> 7 [] c = "8" -> 8 [] OTHER -> 9

DigitText(n) ==
    CASE n = 0 -> "0" [] n = 1 -> "1" [] n = 2 -> "2" [] n = 3 -> "3" [] n = 4 -> "4"
      [] n = 5 -> "5" [] n = 6 -> "6" [] n = 7 -> "7" [] n = 8 -> "8" [] OTHER -> "9"

\* str(n) of a natural number n, as in an f-string
RECURSIVE NumberText(_)
NumberText(n) ==
    IF n < 10 THEN <<DigitText(n)>> ELSE Append(NumberText(n \div 10), DigitText(n % 10))

\* the text of url u, a string being the sequence of its symbols: the
\* separators "/", "_" and ".", the decimal digits, and words without a
\* separator in them
\* /daily/{variable}/{year}/PRISM_{variable}_{stability}_{scale}{version}_{year}*_bil.zip
UrlString(u) ==
    <<"/", "daily", "/", u.variable, "/">> \o NumberText(u.year)
    \o <<"/", "PRISM", "_", u.variable, "_", "stable", "_", "4km", "D2", "_">>
    \o NumberText(u.year) \o u.star \o <<"_", "bil", ".", "zip">>

\* the value of a string of digits
RECURSIVE Number(_)
Number(t) ==
    IF t = <<>> THEN 0 ELSE 10 * Number(SubSeq(t, 1, Len(t) - 1)) + DigitVal(t[Len(t)])

\* the positions of symbol c in string t
Positions(t, c) == { k \in 1..Len(t) : t[k] = c }
Last(S) == CHOOSE k \in S : \A j \in S : j <= k

\* Path(p).name: what follows the last "/"
FileName(p) ==
    IF Positions(p, "/") = {} THEN p ELSE SubSeq(p, Last(Positions(p, "/")) + 1, Len(p))

\* Path(p).stem: the name without its last suffix
PathStem(p) ==
    LET n == FileName(p)
        dots == Positions(n, ".") \ {1, Len(n)}
    IN IF dots = {} THEN n ELSE SubSeq(n, 1, Last(dots) - 1)

\* str.split("_"): the pieces between the underscores
RECURSIVE Split(_)
Split(t) ==
    IF Positions(t, "_") = {} THEN <<t>>
    ELSE LET k == Last(Positions(t, "_"))
         IN Append(Split(SubSeq(t, 1, k - 1)), SubSeq(t, k + 1, Len(t)))

DaysInMonth(y, m) ==
    IF m \in {4, 6, 9, 11} THEN 30
    ELSE IF m # 2 THEN 31
    ELSE IF (y % 4 = 0 /\ y % 100 # 0) \/ y % 400 = 0 THEN 29 ELSE 28

ParseFailure == [ok |-> FALSE, date |-> NoDate]

\* the lengths of month text that %m takes at the head of r, in the order the
\* pattern 1[0-2]|0[1-9]|[1-9] tries them
MonthTakes(r) ==
    (IF /\ Len(r) >= 2
        /\ \/ r[1] = "1" /\ r[2] \in {"0", "1", "2"}
           \/ r[1] = "0" /\ r[2] \in Digits \ {"0"}
     THEN <<2>> ELSE <<>>)
    \o (IF Len(r) >= 1 /\ r[1] \in Digits \ {"0"} THEN <<1>> ELSE <<>>)

\* the length of day text that %d takes at the head of r, 0 if none:
\* 3[0-1]|[1-2]\d|0[1-9]|[1-9]| [1-9]
DayTakes(r) ==
    IF /\ Len(r) >= 2
       /\ \/ r[1] = "3" /\ r[2] \in {"0", "1"}
          \/ r[1] \in {"1", "2"} /\ r[2] \in Digits
          \/ r[1] = "0" /\ r[2] \in Digits \ {"0"}
    THEN 2
    ELSE IF Len(r) >= 1 /\ r[1] \in Digits \ {"0"} THEN 1
    ELSE IF Len(r) >= 2 /\ r[1] = " " /\ r[2] \in Digits \ {"0"} THEN 2
    ELSE 0

\* datetime.strptime(t, "%Y%m%d"): four digits of year, then the first way of
\* taking a month and a day that the pattern finds; text left over, a year 0
\* or a day the month does not have is a ValueError
strptime(t) ==
    IF Len(t) < 4 \/ \E k \in 1..4 : t[k] \notin Digits THEN ParseFailure
    ELSE LET r == SubSeq(t, 5, Len(t))
             ways == { k \in 1..Len(MonthTakes(r)) :
                         DayTakes(SubSeq(r, MonthTakes(r)[k] + 1, Len(r))) > 0 }
         IN IF ways = {} THEN ParseFailure
            ELSE LET ml == MonthTakes(r)[CHOOSE k \in ways : \A j \in ways : k <= j]
                     dl == DayTakes(SubSeq(r, ml + 1, Len(r)))
                     y == Number(SubSeq(t, 1, 4))
                     m == Number(SubSeq(r, 1, ml))
                     dtxt == SubSeq(r, ml + 1, ml + dl)
                     d == Number(IF dtxt[1] = " " THEN Tail(dtxt) ELSE dtxt)
                 IN IF ml + dl # Len(r) \/ y < 1 \/ d > DaysInMonth(y, m)
                    THEN ParseFailure
                    ELSE [ok |-> TRUE, date |-> <<y, m, d>>]

\* a function that takes the last piece of the stem for the date
_datetime_from_last_piece(p) ==
    LET pieces == Split(PathStem(p)) IN strptime(pieces[Len(pieces)])

\* datetime.strptime(p.stem.split("_")[-2], "%Y%m%d"); a stem without an
\* underscore has no [-2] (IndexError)
_datetime_from_prism_flname(p) ==
    LET pieces == Split(PathStem(p))
    IN IF Len(pieces) < 2 THEN ParseFailure ELSE strptime(pieces[Len(pieces) - 1])

(* ------------------------- main: control flow -------------------------- *)
\* main with the combine step and the final write placed after the with block
\* of the scratch directory instead of inside it
MainFlowCombineAfterScratch(at, e, more) ==
    CASE at = "loop"         -> IF more THEN "fetch" ELSE "scratch_exit"
      [] at = "fetch"        -> IF e = "none" THEN "extract" ELSE "ext_exit"
      [] at = "extract"      -> IF e = "none" THEN "decode" ELSE "ext_exit"
      [] at = "decode"       -> IF e = "none" THEN "normalize" ELSE "ext_exit"
      [] at = "normalize"    -> IF e = "none" THEN "persist" ELSE "ext_exit"
      [] at = "persist"      -> "ext_exit"
      [] at = "ext_exit"     -> IF e = "none" THEN "loop" ELSE "scratch_exit"
      [] at = "scratch_exit" -> IF e = "none" THEN "combine" ELSE "done"
      [] at = "combine"      -> IF e = "none" THEN "write" ELSE "done"
      [] at = "write"        -> "writing"
      [] OTHER               -> "done"

\* main whose scratch directory is removed only at the end of a run that
\* got as far as the combine step
MainFlowNoScratchCleanup(at, e, more) ==
    CASE at = "loop"         -> IF more THEN "fetch" ELSE "combine"
      [] at = "fetch"        -> IF e = "none" THEN "extract" ELSE "ext_exit"
      [] at = "extract"      -> IF e = "none" THEN "decode" ELSE "ext_exit"
      [] at = "decode"       -> IF e = "none" THEN "normalize" ELSE "ext_exit"
      [] at = "normalize"    -> IF e = "none" THEN "persist" ELSE "ext_exit"
      [] at = "persist"      -> "ext_exit"
      [] at = "ext_exit"     -> IF e = "none" THEN "loop" ELSE "done"
      [] at = "combine"      -> IF e = "none" THEN "write" ELSE "scratch_exit"
      [] at = "write"        -> "writing"
      [] at = "writing"      -> "scratch_exit"
      [] OTHER               -> "done"

\* main that logs a failed url and goes on with the loop
MainFlowSkipAndContinue(at, e, more) ==
    CASE at = "loop"         -> IF more THEN "fetch" ELSE "combine"
      [] at = "fetch"        -> IF e = "none" THEN "extract" ELSE "ext_exit"
      [] at = "extract"      -> IF e = "none" THEN "decode" ELSE "ext_exit"
      [] at = "decode"       -> IF e = "none" THEN "normalize" ELSE "ext_exit"
      [] at = "normalize"    -> IF e = "none" THEN "persist" ELSE "ext_exit"
      [] at = "persist"      -> "ext_exit"
      [] at = "ext_exit"     -> "loop"
      [] at = "combine"      -> IF e = "none" THEN "write" ELSE "scratch_exit"
      [] at = "write"        -> "writing"
      [] at = "writing"      -> "scratch_exit"
      [] OTHER               -> "done"

\* a main that ends without combining when there is no url
MainFlowEndsEarly(at, e, more) ==
    CASE at = "loop"         -> IF more THEN "fetch" ELSE "scratch_exit"
      [] at = "fetch"        -> IF e = "none" THEN "extract" ELSE "ext_exit"
      [] at = "extract"      -> IF e = "none" THEN "decode" ELSE "ext_exit"
      [] at = "decode"       -> IF e = "none" THEN "normalize" ELSE "ext_exit"
      [] at = "normalize"    -> IF e = "none" THEN "persist" ELSE "ext_exit"
      [] at = "persist"      -> "ext_exit"
      [] at = "ext_exit"     -> IF e = "none" THEN "loop" ELSE "scratch_exit"
      [] at = "combine"      -> IF e = "none" THEN "write" ELSE "scratch_exit"
      [] at = "write"        -> "writing"
      [] at = "writing"      -> "scratch_exit"
      [] at = "scratch_exit" -> "done"
      [] OTHER               -> "done"

\* a main that tries the combine step again when it has failed
MainFlowRetryCombine(at, e, more) ==
    CASE at = "loop"         -> IF more THEN "fetch" ELSE "combine"
      [] at = "fetch"        -> IF e = "none" THEN "extract" ELSE "ext_exit"
      [] at = "extract"      -> IF e = "none" THEN "decode" ELSE "ext_exit"
      [] at = "decode"       -> IF e = "none" THEN "normalize" ELSE "ext_exit"
      [] at = "normalize"    -> IF e = "none" THEN "persist" ELSE "ext_exit"
      [] at = "persist"      -> "ext_exit"
      [] at = "ext_exit"     -> IF e = "none" THEN "loop" ELSE "scratch_exit"
      [] at = "combine"      -> IF e = "none" THEN "write" ELSE "combine"
      [] at = "write"        -> "writing"
      [] at = "writing"      -> "scratch_exit"
      [] at = "scratch_exit" -> "done"
      [] OTHER               -> "done"

\* where main continues after the step at position at, given the exception e
\* in flight and whether the for loop has another url
MainFlow(at, e, more) ==
    CASE at = "loop"         -> IF more THEN "fetch" ELSE "combine"
      [] at = "fetch"        -> IF e = "none" THEN "extract" ELSE "ext_exit"
      [] at = "extract"      -> IF e = "none" THEN "decode" ELSE "ext_exit"
      [] at = "decode"       -> IF e = "none" THEN "normalize" ELSE "ext_exit"
      [] at = "normalize"    -> IF e = "none" THEN "persist" ELSE "ext_exit"
      [] at = "persist"      -> "ext_exit"
      [] at = "ext_exit"     -> IF e = "none" THEN "loop" ELSE "scratch_exit"
      [] at = "combine"      -> IF e = "none" THEN "write" ELSE "scratch_exit"
      [] at = "write"        -> "writing"
      [] at = "writing"      -> "scratch_exit"
      [] at = "scratch_exit" -> "done"
      [] OTHER               -> "done"

\* the extraction directory of the url being processed
cur == Len(extdirs)

\* for url in all_urls: with unpacked_prismzip_bil(url, fs=fs) ...
\*   with TemporaryDirectory() as tmpdir:   (unpacked_prismzip_bil)
\* or, when the urls are exhausted, on to the combine step
ForUrl ==
    /\ pc = "loop"
    /\ pc' = MainFlow("loop", err, i <= Len(all_urls))
    /\ IF i <= Len(all_urls)
       THEN /\ extdirs' = Append(extdirs, NewDir)
            /\ tries' = RetryTries
            /\ delay' = RetryDelay
            /\ sleeps' = <<>>
            /\ attempts' = 0
            /\ lastFetch' = "none"
       ELSE UNCHANGED <<extdirs, retryVars>>
    /\ UNCHANGED <<err, years, yi, all_urls, enumVars, scratch, i, bil_path, da,
                   daily_paths, ds, zarr>>

\* one call of fs.get_file(rpath=url, lpath=tmpzip_path) under retry_call
Fetch ==
    /\ pc = "fetch"
    /\ attempts' = attempts + 1
    /\ \E o \in {"ok", "timeout", "error"} :
         /\ lastFetch' = o
         /\ IF o = "ok"
            THEN /\ \E z \in { [present |-> TRUE, readable |-> TRUE, members |-> a] : a \in Archives }
                            \cup { [present |-> TRUE, readable |-> FALSE, members |-> << >>] } :
                       extdirs' = [extdirs EXCEPT ![cur].zip = z]
                 /\ pc' = MainFlow("fetch", "none", TRUE)
                 /\ UNCHANGED <<err, tries, delay, sleeps>>
            ELSE IF Retriable(o)
                 THEN LET r == retry_step(tries, delay) IN
                      /\ tries' = r.tries
                      /\ delay' = r.delay
                      /\ sleeps' = sleeps \o r.slept
                      /\ err' = IF r.raise THEN "TimeoutError" ELSE err
                      /\ pc' = IF r.raise THEN MainFlow("fetch", "TimeoutError", TRUE) ELSE pc
                      /\ UNCHANGED extdirs
                 ELSE /\ err' = "FetchError"
                      /\ pc' = MainFlow("fetch", "FetchError", TRUE)
                      /\ UNCHANGED <<extdirs, tries, delay, sleeps>>
    /\ UNCHANGED <<years, yi, all_urls, enumVars, scratch, i, bil_path, da,
                   daily_paths, ds, zarr>>

\* with fsspec.open_files(...) as zipped_files:
\*     target_bil_path = _dump_zippedbil(zipped_files, dumpdir=Path(tmpdir))
\*     yield target_bil_path
Extract ==
    /\ pc = "extract"
    /\ IF ~extdirs[cur].zip.readable
       THEN /\ err' = "BadZipFile"
            /\ UNCHANGED <<extdirs, bil_path>>
       ELSE LET out == _dump_zippedbil(open_files(extdirs[cur].zip), cur, extdirs[cur].files) IN
            /\ extdirs' = [extdirs EXCEPT ![cur].files = out.files]
            /\ err' = IF out.raised THEN "ZipBilFileError" ELSE err
            /\ bil_path' = IF out.raised THEN bil_path ELSE out.bil_path
    /\ pc' = MainFlow("extract", err', TRUE)
    \* retry_call has returned: its locals and its record are gone
    /\ tries' = 0
    /\ delay' = 0
    /\ sleeps' = <<>>
    /\ attempts' = 0
    /\ lastFetch' = "none"
    /\ UNCHANGED <<years, yi, all_urls, enumVars, scratch, i, da,
                   daily_paths, ds, zarr>>

\* da = rxr.open_rasterio(bil_path); da.name = variable
\* da.attrs["source_url"] = str(url)
Decode ==
    /\ pc = "decode"
    /\ \E ok \in BOOLEAN :
         IF ok /\ extdirs[bil_path.dir].state = "live"
               /\ bil_path.name \in DOMAIN extdirs[bil_path.dir].files
         THEN /\ da' = [loaded |-> TRUE,
                        data |-> extdirs[bil_path.dir].files[bil_path.name],
                        source_url |-> all_urls[i],
                        normalized |-> FALSE,
                        time |-> NoDate]
              /\ UNCHANGED err
         ELSE /\ err' = "DecodeError"
              /\ UNCHANGED da
    /\ pc' = MainFlow("decode", err', TRUE)
    /\ UNCHANGED <<years, yi, all_urls, enumVars, scratch, extdirs, i, retryVars,
                   bil_path, daily_paths, ds, zarr>>

\* da = preprocess_bil_dataarray(da, **preprocess_kwargs): reprojection and
\* clipping may fail; then the time coordinate is taken from the name of
\* da.attrs["source_url"]
Normalize ==
    /\ pc = "normalize"
    /\ \E ok \in BOOLEAN :
         LET t == _datetime_from_prism_flname(UrlString(da.source_url)) IN
         IF ~ok
         THEN /\ err' = "NormalizeError"
              /\ UNCHANGED da
         ELSE IF ~t.ok
         THEN /\ err' = "DateParseError"
              /\ UNCHANGED da
         ELSE /\ da' = [da EXCEPT !.normalized = TRUE, !.time = t.date]
              /\ UNCHANGED err
    /\ pc' = MainFlow("normalize", err', TRUE)
    /\ UNCHANGED <<years, yi, all_urls, enumVars, scratch, extdirs, i, retryVars,
                   bil_path, daily_paths, ds, zarr>>

\* daily_outpath = tmpdir.joinpath(bil_path.name).with_suffix(".nc")
daily_outpath(bp) == [stem |-> bp.name.stem, suffix |-> ".nc"]

\* da.to_dataset().to_netcdf(daily_outpath); daily_paths.append(daily_outpath)
Persist ==
    /\ pc = "persist"
    /\ \E ok \in BOOLEAN :
         IF ok /\ scratch.state = "live"
         THEN /\ scratch' = [scratch EXCEPT !.files = (daily_outpath(bil_path) :> da) @@ @]
              /\ daily_paths' = Append(daily_paths, daily_outpath(bil_path))
              /\ UNCHANGED err
         ELSE /\ err' = "PersistError"
              /\ UNCHANGED <<scratch, daily_paths>>
    /\ pc' = MainFlow("persist", err', TRUE)
    /\ UNCHANGED <<years, yi, all_urls, enumVars, extdirs, i, retryVars, bil_path,
                   da, ds, zarr>>

\* an unpacker that leaves its directory behind
UnpackExitKeepsDir(d, e) == d

\* an unpacker that removes its directory only when its scope ends normally
UnpackExitOnSuccessOnly(d, e) == IF e = "none" THEN TemporaryDirectoryCleanup(d) ELSE d

\* leaving the scope of unpacked_prismzip_bil, normally or with the exception
\* e in flight: the TemporaryDirectory of the unpacker is cleaned up
UnpackExit(d, e) == TemporaryDirectoryCleanup(d)

ExitUnpack ==
    /\ pc = "ext_exit"
    /\ extdirs' = [extdirs EXCEPT ![cur] = UnpackExit(@, err)]
    /\ bil_path' = NoPath
    /\ i' = IF err = "none" THEN i + 1 ELSE i
    /\ pc' = MainFlow("ext_exit", err, TRUE)
    /\ UNCHANGED <<err, years, yi, all_urls, enumVars, scratch, retryVars, da,
                   daily_paths, ds, zarr>>

\* dates in the order of the calendar
DateNumber(d) == 10000 * d[1] + 100 * d[2] + d[3]
RECURSIVE Ascending(_)
Ascending(S) ==
    IF S = {} THEN <<>>
    ELSE LET m == CHOOSE d \in S : \A e \in S : DateNumber(d) <= DateNumber(e)
         IN <<m>> \o Ascending(S \ {m})

\* xarray's combine_by_coords on datasets of one time step each, ts their
\* times in the order of the paths: several datasets that all have the same
\* time give no dimension to order them by (ValueError); otherwise the
\* datasets are placed by the rank of their time, and of the datasets with
\* one time a single one is kept
combine_by_coords(ts) ==
    LET S == { ts[k] : k \in 1..Len(ts) } IN
    IF Len(ts) > 1 /\ Cardinality(S) = 1
    THEN [ok |-> FALSE, times |-> <<>>]
    ELSE [ok |-> TRUE, times |-> Ascending(S)]

\* ds = xr.open_mfdataset(daily_paths, parallel=True)
\* an empty list of paths, or a path that no longer exists, is an error
Combine ==
    /\ pc = "combine"
    /\ \E ok \in BOOLEAN :
         IF /\ ok
            /\ daily_paths # <<>>
            /\ scratch.state = "live"
            /\ \A k \in 1..Len(daily_paths) : daily_paths[k] \in DOMAIN scratch.files
            /\ combine_by_coords([k \in 1..Len(daily_paths) |->
                                     scratch.files[daily_paths[k]].time]).ok
         THEN /\ ds' = [open |-> TRUE, paths |-> daily_paths,
                        times |-> combine_by_coords([k \in 1..Len(daily_paths) |->
                                     scratch.files[daily_paths[k]].time]).times]
              /\ UNCHANGED err
         ELSE /\ err' = "ConsolidationError"
              /\ UNCHANGED ds
    /\ pc' = MainFlow("combine", err', FALSE)
    /\ UNCHANGED <<years, yi, all_urls, enumVars, scratch, extdirs, i, retryVars,
                   bil_path, da, daily_paths, zarr>>

\* ds.to_zarr(outpath) is entered
WriteStart ==
    /\ pc = "write"
    /\ zarr' = "writing"
    /\ pc' = MainFlow("write", err, FALSE)
    /\ UNCHANGED <<err, years, yi, all_urls, enumVars, scratch, extdirs, i,
                   retryVars, bil_path, da, daily_paths, ds>>

\* ds.to_zarr(outpath) returns or raises; the data is read from the
\* intermediate files while it runs
WriteEnd ==
    /\ pc = "writing"
    /\ \E ok \in BOOLEAN :
         IF /\ ok
            /\ scratch.state = "live"
            /\ \A k \in 1..Len(ds.paths) : ds.paths[k] \in DOMAIN scratch.files
         THEN /\ zarr' = "written"
              /\ UNCHANGED err
         ELSE /\ zarr' = "failed"
              /\ err' = "ConsolidationError"
    /\ pc' = MainFlow("writing", err', FALSE)
    /\ UNCHANGED <<years, yi, all_urls, enumVars, scratch, extdirs, i, retryVars,
                   bil_path, da, daily_paths, ds>>

\* leaving the with TemporaryDirectory() block of main, normally or with an
\* exception in flight
ExitScratch ==
    /\ pc = "scratch_exit"
    /\ scratch' = TemporaryDirectoryCleanup(scratch)
    /\ pc' = MainFlow("scratch_exit", err, FALSE)
    /\ UNCHANGED <<err, years, yi, all_urls, enumVars, extdirs, i, retryVars,
                   bil_path, da, daily_paths, ds, zarr>>

Next ==
    \/ Enumerate
    \/ EnterScratch
    \/ ForUrl
    \/ Fetch
    \/ Extract
    \/ Decode
    \/ Normalize
    \/ Persist
    \/ ExitUnpack
    \/ Combine
    \/ WriteStart
    \/ WriteEnd
    \/ ExitScratch

Spec == Init /\ [][Next]_vars

\* main is one thread and every call it makes returns or raises: while a step
\* is possible, a step is taken
SpecFair == Spec /\ WF_vars(Next)

(* ----------------- the enumerator called on its own -------------------- *)
CallGetUrls ==
    /\ pc = "enum"
    /\ years = <<>>
    /\ Len(callLog) < MaxCalls
    /\ \E k \in CallKeys, r \in GlobOutcomes : GetUrls(k, r)
    /\ UNCHANGED <<pc, err, years, yi, all_urls, scratch, extdirs, i, retryVars,
                   bil_path, da, daily_paths, ds, zarr>>

InitCache == Init /\ years = <<>>
NextCache == CallGetUrls
SpecCache == InitCache /\ [][NextCache]_vars

(* ============================== claims ================================= *)
\* positions of main inside the scope of unpacked_prismzip_bil
UnpackScope == {"fetch", "extract", "decode", "normalize", "persist", "ext_exit"}
\* positions at which the caller's body runs with the path yielded
YieldScope == {"decode", "normalize", "persist"}
\* the errors raised while one url is processed
UrlErrors == {"TimeoutError", "FetchError", "BadZipFile", "ZipBilFileError",
              "DecodeError", "NormalizeError", "DateParseError", "PersistError"}
\* the scope of the k-th use of unpacked_prismzip_bil has exited
ScopeExited(k) == k < Len(extdirs) \/ pc \notin UnpackScope
Gone(d) == d.state = "deleted" /\ d.files = EmptyFiles /\ ~d.zip.present

\* C1: whenever the scratch directory of main has been deleted, the combine
\* step and the final write are neither pending nor in progress: the run
\* either failed or its write to the output store has completed.
C1_WriteBeforeScratchDelete ==
    scratch.state = "deleted" =>
        /\ pc \notin {"loop", "combine", "write", "writing"}
        /\ zarr # "writing"
        /\ (err = "none" => zarr = "written")

\* C1 witness: a successful run whose scratch directory has been deleted
C1_Witness ==
    scratch.state = "deleted" /\ err = "none" /\ zarr = "written" /\ Len(ds.paths) >= 2

\* C2: once the scope of a use of unpacked_prismzip_bil has exited, its
\* extraction directory and everything in it are gone, whatever the exit path.
C2_ExtractionDirGone ==
    \A k \in 1..Len(extdirs) : ScopeExited(k) => Gone(extdirs[k])

\* C2 witness: a first use left normally and a second left by a malformed archive
C2_Witness ==
    /\ Len(extdirs) = 2
    /\ pc \notin UnpackScope
    /\ err = "ZipBilFileError"
    /\ Len(daily_paths) = 1

\* C2, the other exit paths, each reached with the scope exited
C2_ExitedByDownloadTimeout == pc \notin UnpackScope /\ err = "TimeoutError" /\ Gone(extdirs[cur])
C2_ExitedByDownloadError == pc \notin UnpackScope /\ err = "FetchError" /\ Gone(extdirs[cur])
C2_ExitedByBodyError ==
    /\ pc \notin UnpackScope
    /\ err \in {"DecodeError", "NormalizeError", "DateParseError", "PersistError"}
    /\ Gone(extdirs[cur])

\* the .bil members of a downloaded archive, at any depth and at the top level
BilMembers(z) == { m \in DOMAIN z.members : m.suffix = ".bil" }
TopBilMembers(z) == { m \in BilMembers(z) : m.dir = "" }
\* the unpacker has finished extracting the archive of the current url
Extracted ==
    /\ pc \in {"decode", "normalize", "persist", "ext_exit"}
    /\ extdirs[cur].zip.readable

\* C3: an archive with zero or with more than one .bil member makes the
\* unpacker fail with ZipBilFileError without yielding a path, and its
\* directory is gone once the scope has exited.
C3_MalformedArchiveRejected ==
    /\ (Extracted /\ Cardinality(BilMembers(extdirs[cur].zip)) # 1)
          => (err = "ZipBilFileError" /\ bil_path = NoPath)
    /\ (err = "ZipBilFileError" /\ pc \notin UnpackScope) => Gone(extdirs[cur])

\* what the code does for C3: the .bil members at the top level of the archive
\* decide; members inside a directory of the archive are never looked at
C3_TopLevelBilDecides ==
    Extracted =>
        /\ (Cardinality(TopBilMembers(extdirs[cur].zip)) # 1
              => (err = "ZipBilFileError" /\ bil_path = NoPath))
        /\ (Cardinality(TopBilMembers(extdirs[cur].zip)) = 1
              => err # "ZipBilFileError")

\* C4: for an archive with exactly one .bil member the unpacker yields a path
\* in its directory to a file that exists while the caller's body runs and
\* holds the bytes of that member.
C4_SingleBilYielded ==
    (Extracted /\ Cardinality(BilMembers(extdirs[cur].zip)) = 1) =>
        LET z == extdirs[cur].zip
            m == CHOOSE x \in BilMembers(z) : TRUE
        IN /\ err # "ZipBilFileError"
           /\ pc \in YieldScope =>
                /\ bil_path.dir = cur
                /\ extdirs[cur].state = "live"
                /\ bil_path.name \in DOMAIN extdirs[cur].files
                /\ extdirs[cur].files[bil_path.name] = z.members[m]

\* what the code does for C4: the claim holds when the one .bil member is at
\* the top level of the archive
C4_SingleTopLevelBilYielded ==
    (Extracted /\ Cardinality(TopBilMembers(extdirs[cur].zip)) = 1) =>
        LET z == extdirs[cur].zip
            m == CHOOSE x \in TopBilMembers(z) : TRUE
        IN /\ err # "ZipBilFileError"
           /\ pc \in YieldScope =>
                /\ bil_path.dir = cur
                /\ extdirs[cur].state = "live"
                /\ bil_path.name \in DOMAIN extdirs[cur].files
                /\ extdirs[cur].files[bil_path.name] = z.members[m]

\* C5: the download of a url is attempted at most 3 times, a further attempt
\* follows only a TimeoutError, any other failure and a third TimeoutError
\* propagate, and once an exception propagates nothing runs but scope exits.
C5_RetryOnlyTimeout ==
    /\ [](/\ attempts <= 3
          /\ (pc = "fetch" /\ attempts > 0 => lastFetch = "timeout")
          /\ (lastFetch = "error" => pc # "fetch" /\ attempts = 1 + Len(sleeps) /\ err = "FetchError")
          /\ (lastFetch = "timeout" /\ attempts = 3 => pc # "fetch" /\ err = "TimeoutError"))
    /\ [][err # "none" => (err' = err /\ attempts' = attempts
                            /\ pc' \in {"scratch_exit", "done"})]_vars

\* C5 witness: a missing file ended the run after a timeout had been retried
C5_Witness == lastFetch = "error" /\ attempts = 2 /\ err = "FetchError" /\ pc = "done"

\* C6: a download that timed out twice and succeeded on the third attempt
\* succeeds as a whole, after exactly 2 retries with delays of 30 s and 60 s.
C6_ThirdAttemptSucceeds ==
    (lastFetch = "ok" /\ attempts = 3) =>
        /\ pc = "extract"
        /\ err = "none"
        /\ extdirs[cur].zip.present
        /\ Len(sleeps) = 2
        /\ sleeps[1] = 30
        /\ sleeps[2] = 60
        /\ sleeps[1] + sleeps[2] >= 30 + 60

\* C6 witness: the third attempt has just succeeded
C6_Witness == lastFetch = "ok" /\ attempts = 3 /\ pc = "extract"

\* C7 as stated: a timeout is fatal only after 3 attempts with backoff delays
\* of 30 s, 60 s and 120 s.
C7_Original ==
    err = "TimeoutError" => (attempts = 3 /\ sleeps = <<30, 60, 120>>)

\* C7 amended: a timeout is retried in at most 3 attempts with backoff delays
\* of 30 s and 60 s, and is fatal only after the third attempt timed out; no
\* delay follows the third attempt.
C7_Amended ==
    /\ Len(sleeps) <= 2
    /\ \A k \in 1..Len(sleeps) : sleeps[k] = IF k = 1 THEN 30 ELSE 60
    /\ err = "TimeoutError" => (attempts = 3 /\ lastFetch = "timeout" /\ sleeps = <<30, 60>>)

\* C7 witness: the third timeout has ended the run
C7_Witness == err = "TimeoutError" /\ pc = "done" /\ attempts = 3

\* the five arguments C8 speaks of
Key5(k) == <<k.year, k.variable, k.stability, k.scale, k.version>>

\* C8 as stated: of two calls with the same (year, variable, stability,
\* scale, version) the second issues no query and returns the result of the
\* first, and a call that differs from every earlier call in one of the five
\* issues a query.
C8_Original ==
    \A b \in 1..Len(callLog) :
        LET same == { a \in 1..(b - 1) : Key5(callLog[a].key) = Key5(callLog[b].key) } IN
        /\ same # {} => /\ ~callLog[b].queried
                        /\ \A a \in same : callLog[b].result = callLog[a].result
        /\ same = {} => callLog[b].queried

\* C8 amended: a call issues no query and returns the cached listing exactly
\* when an earlier call with equal arguments (the five and the fs handle,
\* passed the same way) returned a listing; every other call issues a query,
\* so equal calls of which the first returned issue one query in total.
C8_Amended ==
    /\ \A b \in 1..Len(callLog) :
         LET prior == { a \in 1..(b - 1) : /\ callLog[a].key = callLog[b].key
                                           /\ callLog[a].result.ok } IN
         /\ prior # {} => /\ ~callLog[b].queried
                          /\ \A a \in prior : callLog[b].result = callLog[a].result
         /\ prior = {} => callLog[b].queried
    /\ \A k \in CallKeys :
         Cardinality({ a \in 1..Len(callLog) :
                         callLog[a].key = k /\ callLog[a].queried /\ callLog[a].result.ok }) <= 1
    /\ Len(globLog) = Cardinality({ a \in 1..Len(callLog) : callLog[a].queried })

\* C8 witness: a call, a call that differs in the fs handle only and queries,
\* and the first call again, answered from the cache
C8_Witness ==
    /\ Len(callLog) = 3
    /\ callLog[1].result.ok
    /\ callLog[2].key = [callLog[1].key EXCEPT !.fs = "fs2"]
    /\ callLog[2].key # callLog[1].key
    /\ callLog[2].queried
    /\ callLog[3].key = callLog[1].key
    /\ ~callLog[3].queried
    /\ Len(globLog) = 2

\* C9: when the processing of a url has failed, the combine step and the write
\* to the output location are never started, and when the run has ended the
\* scratch directory and every extraction directory are gone.
C9_NoStoreOnFailure ==
    err \in UrlErrors =>
        /\ zarr = "absent"
        /\ ~ds.open
        /\ pc \notin {"combine", "write", "writing"}
        /\ pc = "done" => (Gone(scratch) /\ \A k \in 1..Len(extdirs) : Gone(extdirs[k]))

\* C9 witness: the second archive was malformed and the run has ended
C9_Witness ==
    /\ pc = "done"
    /\ err = "ZipBilFileError"
    /\ Len(extdirs) = 2
    /\ Len(daily_paths) = 1

\* C10: once the processing of a url has failed, no later step downloads,
\* extracts or writes an intermediate file, no further url is started, and
\* neither the combine step nor the final write runs: only the scopes exit.
C10_FirstErrorEndsRun ==
    [][(err \in UrlErrors) =>
          (/\ err' = err
           /\ pc' \in {"scratch_exit", "done"}
           /\ i' = i
           /\ Len(extdirs') = Len(extdirs)
           /\ attempts' = attempts
           /\ \A k \in 1..Len(extdirs) : DOMAIN extdirs'[k].files \subseteq DOMAIN extdirs[k].files
           /\ daily_paths' = daily_paths
           /\ DOMAIN scratch'.files \subseteq DOMAIN scratch.files
           /\ ds' = ds
           /\ zarr' = zarr)]_vars

\* C10 witness: the run has ended on a failed url with a later url never started
C10_Witness ==
    /\ pc = "done"
    /\ err \in UrlErrors
    /\ i < Len(all_urls)
    /\ Len(extdirs) = i
    /\ zarr = "absent"

(* ------------- the loop body on one url, for every filename ------------ *)
\* years, and what can follow the year in a name: month and day in two
\* digits each, calendar dates and others, and texts that are not four digits
TokenYears == {2020, 2021, 1900}
TokenMonths == {<<"0", "0">>, <<"0", "1">>, <<"0", "2">>, <<"0", "4">>, <<"1", "2">>, <<"1", "3">>}
TokenDays == {<<"0", "0">>, <<"0", "1">>, <<"2", "8">>, <<"2", "9">>, <<"3", "0">>,
              <<"3", "1">>, <<"3", "2">>}
ConventionStars == { m \o d : m \in TokenMonths, d \in TokenDays }
OtherStars == { <<"x">>, <<"6", "1", "5">>, <<"0", "1", "0", "1", "0">>, <<>> }
Variables == {"tmean", "ppt"}
Filenames ==
    { PrismUrl(v, y, t) : v \in Variables, y \in TokenYears,
                          t \in ConventionStars \cup OtherStars }

\* the archive of a raster a.bil with its header a.hdr
PlainArchive ==
    [m \in { n \in MemberNames : n.dir = "" /\ n.stem = "a" } |-> MemberBytes(1, m)]

\* main inside the loop body on the only url of the only year, the raster
\* decoded and about to be normalized
InitDate ==
    \E p \in Filenames :
      LET listing == [ok |-> TRUE, urls |-> <<p>>]
          zip == [present |-> TRUE, readable |-> TRUE, members |-> PlainArchive]
          out == _dump_zippedbil(open_files(zip), 1, EmptyFiles)
      IN
      /\ pc = "normalize"
      /\ err = "none"
      /\ years = <<p.year>>
      /\ yi = 2
      /\ all_urls = <<p>>
      /\ cache = (CacheKey(MainKey(p.year)) :> listing)
      /\ callLog = <<[key |-> MainKey(p.year), queried |-> TRUE, result |-> listing]>>
      /\ globLog = <<[fs |-> MainKey(p.year).fs, pattern |-> target_file_glob(MainKey(p.year))]>>
      /\ scratch = NewDir
      /\ extdirs = <<[state |-> "live", zip |-> zip, files |-> out.files]>>
      /\ i = 1
      /\ tries = 0
      /\ delay = 0
      /\ sleeps = <<>>
      /\ attempts = 0
      /\ lastFetch = "none"
      /\ bil_path = out.bil_path
      /\ da = [loaded |-> TRUE, data |-> out.files[out.bil_path.name], source_url |-> p,
               normalized |-> FALSE, time |-> NoDate]
      /\ daily_paths = <<>>
      /\ ds = NoDataset
      /\ zarr = "absent"

NextDate ==
    \/ Normalize
    \/ Persist
    \/ ExitUnpack
    \/ ForUrl
    \/ Combine
    \/ WriteStart
    \/ WriteEnd
    \/ ExitScratch

SpecDate == InitDate /\ [][NextDate]_vars

(* ================================ C12 =================================== *)
\* what a name of the convention says: the year, and the two digits of month
\* and of day that follow it, read off by position
StarDate(y, t) == <<y, Number(SubSeq(t, 1, 2)), Number(SubSeq(t, 3, 4))>>
IsCalendarDate(y, t) ==
    /\ y >= 1
    /\ StarDate(y, t)[2] \in 1..12
    /\ StarDate(y, t)[3] \in 1..DaysInMonth(y, StarDate(y, t)[2])
\* what the claim calls not parseable: month and day that are no calendar
\* date, and text that is not digits or is missing
UnparseableStars(y) ==
    { t \in ConventionStars : ~IsCalendarDate(y, t) } \cup { <<"x">>, <<>> }

\* C12: for a file named PRISM_<variable>_<stability>_<scale><version>_<YYYYMMDD>_bil.zip
\* the date given to the frame is the date its eight-digit token spells, the
\* normalized frame carries that single time value, and the date step never
\* fails on such a name; a name whose token is not a date makes the date step
\* raise, the frame is never persisted, nothing is combined or written and
\* the run ends with that error.
C12_DateFromFilename ==
    \A v \in Variables, y \in TokenYears :
      /\ \A t \in { c \in ConventionStars : IsCalendarDate(y, c) } :
           all_urls = <<PrismUrl(v, y, t)>> =>
             /\ err # "DateParseError"
             /\ da.normalized => da.time = StarDate(y, t)
             /\ (pc # "normalize" /\ err = "none") => (da.normalized /\ da.time = StarDate(y, t))
      /\ \A t \in UnparseableStars(y) :
           all_urls = <<PrismUrl(v, y, t)>> =>
             /\ ~da.normalized
             /\ pc # "normalize" =>
                  /\ err \in {"NormalizeError", "DateParseError"}
                  /\ pc \in {"ext_exit", "scratch_exit", "done"}
             /\ daily_paths = <<>> /\ scratch.files = EmptyFiles
             /\ ~ds.open /\ zarr = "absent"

\* the frame of the archive of 29 February 2020 normalized, its time set
C12_Witness ==
    /\ pc = "persist"
    /\ da.source_url = PrismUrl("ppt", 2020, <<"0", "2", "2", "9">>)
    /\ da.normalized
    /\ da.time = <<2020, 2, 29>>

\* the run ended by the date of 29 February 2021
C12_ParseErrorEndsRun ==
    /\ pc = "done"
    /\ err = "DateParseError"
    /\ all_urls = <<PrismUrl("tmean", 2021, <<"0", "2", "2", "9">>)>>
    /\ Gone(scratch)

(* ================================ C11 =================================== *)
\* the date in the name of url u
UrlDate(u) == _datetime_from_prism_flname(UrlString(u)).date
Distinct(q) == \A j, k \in 1..Len(q) : j # k => q[j] # q[k]
\* every step of the run succeeded and the store is written
RunSucceeded == pc = "done" /\ err = "none" /\ zarr = "written"

\* C11: when the urls enumerated are different archives and every step has
\* succeeded, the combine step was given one intermediate file per url, and
\* the store written holds exactly one time step per url, the dates of the
\* urls in ascending order, whatever the order of the listing.
C11_OneTimeStepPerUrl ==
    (RunSucceeded /\ Distinct(all_urls)) =>
       /\ Len(ds.paths) = Len(all_urls)
       /\ Distinct(ds.paths)
       /\ Len(ds.times) = Len(all_urls)
       /\ ds.times = Ascending({ UrlDate(all_urls[k]) : k \in 1..Len(all_urls) })

\* what the code keeps of C11: when, in addition, no two archives name their
\* raster alike, the store holds the dates of the urls in ascending order
C11_HoldsForDistinctRasterNames ==
    (RunSucceeded /\ Distinct(all_urls) /\ Distinct(daily_paths)) =>
       /\ ds.paths = daily_paths
       /\ Len(ds.paths) = Len(all_urls)
       /\ Len(ds.times) = Len(all_urls)
       /\ ds.times = Ascending({ UrlDate(all_urls[k]) : k \in 1..Len(all_urls) })

\* a listing in descending order of date, combined in ascending order
C11_SortedWitness ==
    /\ RunSucceeded
    /\ all_urls = <<U2, U1>>
    /\ ds.times = <<UrlDate(U1), UrlDate(U2)>>

\* three urls, two time steps: the day of the first url is lost
C11_DayLost ==
    /\ RunSucceeded
    /\ all_urls = <<U2, U1, U3>>
    /\ Len(ds.times) = 2

(* ================================ C13 =================================== *)
\* C13: the name of the intermediate file of a url is a function of the url
\* alone and differs for different urls, so that no intermediate file is
\* overwritten: among the urls processed so far, two entries of daily_paths
\* are the same file exactly if their urls are the same, and the scratch
\* directory holds as many files as different urls were persisted.
C13_NameFromUrl ==
    /\ \A j, k \in 1..Len(daily_paths) :
         (all_urls[j] = all_urls[k]) <=> (daily_paths[j] = daily_paths[k])
    /\ scratch.state = "live" =>
         Cardinality(DOMAIN scratch.files)
           = Cardinality({ all_urls[k] : k \in 1..Len(daily_paths) })

\* two different urls persisted under one name, the first file overwritten
C13_Overwritten ==
    /\ Len(daily_paths) = 2
    /\ all_urls[1] # all_urls[2]
    /\ daily_paths[1] = daily_paths[2]
    /\ scratch.files[daily_paths[1]].source_url = all_urls[2]

\* one url persisted under two names, its archive having changed in between
C13_SameUrlTwoNames ==
    /\ Len(daily_paths) = 2
    /\ all_urls[1] = all_urls[2]
    /\ daily_paths[1] # daily_paths[2]

(* ================================ C14 =================================== *)
\* the extraction directories that exist
LiveExtdirs == { k \in 1..Len(extdirs) : extdirs[k].state = "live" }

\* C14: at most one extraction directory exists at any time; when the
\* unpacking of a url begins, and so before its download, the directory of
\* every earlier url is deleted; an extraction directory is created only
\* after the scratch directory and is deleted before the scratch directory is.
C14_OneArchiveAtATime ==
    /\ Cardinality(LiveExtdirs) <= 1
    /\ \A k \in 1..Len(extdirs) : k < Len(extdirs) => Gone(extdirs[k])
    /\ pc = "fetch" => LiveExtdirs = {cur}
    /\ extdirs # <<>> => scratch.state # "none"
    /\ LiveExtdirs # {} => scratch.state = "live"
    /\ scratch.state = "deleted" => \A k \in 1..Len(extdirs) : Gone(extdirs[k])

\* the download of the second url about to begin, the directory of the first
\* deleted, inside the scratch directory's lifetime
C14_Witness ==
    /\ pc = "fetch"
    /\ attempts = 0
    /\ Len(extdirs) = 2
    /\ Gone(extdirs[1])
    /\ extdirs[2].state = "live"
    /\ scratch.state = "live"
    /\ Len(daily_paths) = 1

(* ================================ C15 =================================== *)
\* the listings returned by the calls of log, one after the other
RECURSIVE ListingsInOrder(_)
ListingsInOrder(log) ==
    IF log = <<>> THEN <<>>
    ELSE ListingsInOrder(SubSeq(log, 1, Len(log) - 1)) \o log[Len(log)].result.urls

\* the queries that the calls of log issued, in order
RECURSIVE QueriesIssued(_)
QueriesIssued(log) ==
    IF log = <<>> THEN <<>>
    ELSE LET c == log[Len(log)] IN
         QueriesIssued(SubSeq(log, 1, Len(log) - 1))
           \o (IF c.queried
               THEN <<[fs |-> c.key.fs, pattern |-> target_file_glob(c.key)]>>
               ELSE <<>>)

NothingLocalYet ==
    /\ scratch = NoDir
    /\ extdirs = <<>>
    /\ attempts = 0 /\ lastFetch = "none"
    /\ daily_paths = <<>>

\* C15: the enumerator is called for the years in the order requested, the
\* queries go out in that order, and all of them have returned before the
\* scratch directory, any extraction directory or any download exists; once
\* enumeration is over every requested year has had its query and all_urls is
\* the listings of the years one after the other; a listing that fails is the
\* last call made (no second query for it), ends the run at once, and nothing
\* local has been created and no download attempted.
C15_EnumerationFirst ==
    /\ Len(callLog) <= Len(years)
    /\ \A k \in 1..Len(callLog) : callLog[k].key = MainKey(years[k])
    /\ globLog = QueriesIssued(callLog)
    /\ pc = "enum" => NothingLocalYet
    /\ (pc # "enum" /\ err # "RemoteListingError") =>
         /\ Len(callLog) = Len(years)
         /\ \A k \in 1..Len(years) :
              \E j \in 1..k : callLog[j].queried /\ callLog[j].key = MainKey(years[k])
         /\ \A k \in 1..Len(callLog) : callLog[k].result.ok
         /\ all_urls = ListingsInOrder(callLog)
    /\ extdirs # <<>> => Len(callLog) = Len(years)
    /\ err = "RemoteListingError" =>
         /\ pc = "done"
         /\ NothingLocalYet
         /\ callLog # <<>>
         /\ ~callLog[Len(callLog)].result.ok /\ callLog[Len(callLog)].queried
         /\ \A k \in 1..(Len(callLog) - 1) : callLog[k].result.ok
         /\ all_urls = ListingsInOrder(SubSeq(callLog, 1, Len(callLog) - 1))

\* the first download about to begin, the listings of both years returned
\* and chained in the order of the years
C15_Witness ==
    /\ pc = "fetch" /\ attempts = 0 /\ Len(extdirs) = 1
    /\ Len(years) = 2 /\ years[1] # years[2]
    /\ Len(globLog) = 2
    /\ all_urls = <<U2, U1, U3>>

\* the listing of the second year failed: the run is over, nothing created
C15_ListingFailed ==
    /\ err = "RemoteListingError"
    /\ Len(callLog) = 2
    /\ all_urls = <<U2, U1>>
    /\ pc = "done"

(* ================================ C16 =================================== *)
\* member m of the archive is in the directory of the path yielded, under
\* its filename, with its bytes
WrittenFlat(m) ==
    /\ PathName(m) \in DOMAIN extdirs[bil_path.dir].files
    /\ extdirs[bil_path.dir].files[PathName(m)] = extdirs[cur].zip.members[m]

\* C16: while the caller holds the path yielded by the unpacker, every member
\* of the archive, at whatever depth, is in the directory of that path under
\* its flattened filename with exactly its bytes.
C16_EveryMemberWritten ==
    pc \in YieldScope =>
       /\ bil_path.dir = cur
       /\ \A m \in DOMAIN extdirs[cur].zip.members : WrittenFlat(m)

\* what the code does for C16: the members at the top level of the archive
\* are written, and nothing else is
C16_TopLevelMembersWritten ==
    pc \in YieldScope =>
       /\ bil_path.dir = cur
       /\ \A m \in DOMAIN extdirs[cur].zip.members : m.dir = "" => WrittenFlat(m)
       /\ DOMAIN extdirs[cur].files
            = { PathName(m) : m \in { n \in DOMAIN extdirs[cur].zip.members : n.dir = "" } }

\* the raster yielded while its header, a member of a subdirectory, is missing
C16_HeaderMissing ==
    /\ pc = "decode"
    /\ DOMAIN extdirs[cur].zip.members
         = { [dir |-> "", stem |-> "a", suffix |-> ".bil"],
             [dir |-> "sub", stem |-> "a", suffix |-> ".hdr"] }
    /\ DOMAIN extdirs[cur].files = { [stem |-> "a", suffix |-> ".bil"] }

(* ================================ C17 =================================== *)
\* every intermediate file written during the run is in the scratch directory
IntermediateFilesExist(d, paths) ==
    /\ d.state = "live"
    /\ \A k \in 1..Len(paths) : paths[k] \in DOMAIN d.files

\* C17: the step in which the combine or the final write fails leaves the
\* scratch directory and every intermediate file in place; the only step
\* after such a failure is the exit of main's scope, which deletes the scratch
\* directory: the combine and the write are not tried again and the run ends
\* with the error.
C17_ConsolidationFailure ==
    /\ [][ (err = "none" /\ err' = "ConsolidationError") =>
             ( /\ pc \in {"combine", "writing"}
               /\ pc' = "scratch_exit"
               /\ scratch' = scratch
               /\ daily_paths' = daily_paths
               /\ IntermediateFilesExist(scratch', daily_paths') ) ]_vars
    /\ [][ (err = "ConsolidationError") =>
             ( /\ pc = "scratch_exit"
               /\ pc' = "done"
               /\ err' = err
               /\ ds' = ds /\ zarr' = zarr
               /\ Gone(scratch') ) ]_vars
    /\ []((err = "ConsolidationError" /\ pc = "done") => Gone(scratch))

\* the final write has just failed: two intermediate files still in the
\* scratch directory
C17_Witness ==
    /\ err = "ConsolidationError"
    /\ pc = "scratch_exit"
    /\ zarr = "failed"
    /\ Len(daily_paths) = 2
    /\ daily_paths[1] # daily_paths[2]
    /\ IntermediateFilesExist(scratch, daily_paths)

\* the combine has just failed, the intermediate files still there
C17_CombineFailed ==
    /\ err = "ConsolidationError"
    /\ pc = "scratch_exit"
    /\ zarr = "absent"
    /\ ~ds.open
    /\ Len(daily_paths) = 3
    /\ IntermediateFilesExist(scratch, daily_paths)

(* ================================ C19 =================================== *)
\* enumeration is over and has yielded no url
NoUrls == pc # "enum" /\ err # "RemoteListingError" /\ all_urls = <<>>

\* C19: when enumeration yields no url, the run creates the scratch
\* directory, makes no download and writes no intermediate file, goes from
\* the empty loop to the combine step, which is given the empty list of paths,
\* and, however the combine ends, has deleted the scratch directory when it
\* is over.
C19_EmptyEnumeration ==
    /\ [](NoUrls =>
            /\ scratch.state # "none"
            /\ extdirs = <<>> /\ attempts = 0 /\ lastFetch = "none"
            /\ daily_paths = <<>> /\ scratch.files = EmptyFiles)
    /\ [][ (NoUrls /\ pc = "loop") => (pc' = "combine" /\ scratch'.state = "live") ]_vars
    /\ [][ (NoUrls /\ pc = "combine") =>
             (daily_paths = <<>> /\ scratch.state = "live"
                /\ pc' \in {"write", "scratch_exit"}) ]_vars
    /\ []((NoUrls /\ pc = "done") => Gone(scratch))

\* a run over two years without a url, ended by the combine of nothing, its
\* scratch directory deleted
C19_Witness ==
    /\ NoUrls
    /\ Len(years) = 2
    /\ pc = "done"
    /\ err = "ConsolidationError"
    /\ ~ds.open /\ zarr = "absent"
    /\ Gone(scratch)

(* ================================ C18 =================================== *)
\* C18: every run ends.  A retry_call makes at most three download attempts,
\* every attempt belongs to the retry_call of the url being processed, and the
\* k-th use of the unpacker is for the k-th url and begins once, so that there
\* are never more uses than urls: the download attempts of a run number at
\* most three times the urls enumerated, and no occurrence of a url is
\* unpacked twice.
C18_Terminates ==
    /\ [](/\ attempts <= RetryTries
          /\ Len(extdirs) <= Len(all_urls)
          /\ i <= Len(all_urls) + 1
          /\ pc \in UnpackScope => cur = i
          /\ Len(daily_paths) <= Len(extdirs))
    /\ [][ (attempts' > attempts) =>
             (pc = "fetch" /\ attempts' = attempts + 1 /\ cur = i /\ extdirs[cur].state = "live") ]_vars
    /\ [][ (extdirs' # extdirs /\ Len(extdirs') # Len(extdirs)) =>
             ( /\ Len(extdirs') = Len(extdirs) + 1
               /\ Len(extdirs') = i
               /\ i <= Len(all_urls)
               /\ i' = i ) ]_vars
    /\ [][ i' # i => (i' = i + 1 /\ pc = "ext_exit" /\ err = "none") ]_vars
    /\ <>(pc = "done")

\* the longest listing a query returns
LongestListing == CHOOSE n \in 0..Cardinality(Urls) :
                      /\ \E l \in Listings : Len(l) = n
                      /\ \A l \in Listings : Len(l) <= n
\* the steps one url takes at most: entering the unpacker, three downloads,
\* extraction, decoding, normalization, persisting, leaving the unpacker
StepsPerUrl == RetryTries + 6
\* a bound on the steps main has left
StepsLeft ==
    LET rest == StepsPerUrl * (Len(all_urls) - i) + 5 IN
    CASE pc = "enum"         -> (Len(years) - yi + 1) * (1 + StepsPerUrl * LongestListing)
                                  + StepsPerUrl * Len(all_urls) + 6
      [] pc = "loop"         -> IF i <= Len(all_urls) THEN rest + StepsPerUrl ELSE 5
      [] pc = "fetch"        -> rest + 5 + tries
      [] pc = "extract"      -> rest + 5
      [] pc = "decode"       -> rest + 4
      [] pc = "normalize"    -> rest + 3
      [] pc = "persist"      -> rest + 2
      [] pc = "ext_exit"     -> rest + 1
      [] pc = "combine"      -> 4
      [] pc = "write"        -> 3
      [] pc = "writing"      -> 2
      [] pc = "scratch_exit" -> 1
      [] OTHER               -> 0

\* C18 without fairness: every step of main lowers StepsLeft, which is never
\* negative, and a step is possible until main is over
C18_StepsBounded ==
    /\ [][StepsLeft' < StepsLeft]_vars
    /\ [](StepsLeft >= 0)
    /\ [](pc # "done" => ENABLED Next)

\* a run over three urls that has ended: the third download timed out on each
\* of its three attempts
C18_Witness ==
    /\ pc = "done"
    /\ Len(all_urls) = 3
    /\ Len(extdirs) = 3
    /\ attempts = RetryTries
    /\ err = "TimeoutError"
    /\ Gone(scratch)
====
